---------------------------- MODULE Spec2Model ----------------------------
(***************************************************************************)
(* Model of telegram-notify.py: a backup log is read, classified,          *)
(* formatted as an HTML message, split into chunks and POSTed to the       *)
(* Telegram sendMessage endpoint.                                          *)
(*                                                                         *)
(* A Python str is a sequence of one-element tokens, one per code point:   *)
(* an ASCII character is the one-character string, a non-ASCII code point  *)
(* is the string "Uxxxx".  len() is Len, + is \o.                          *)
(***************************************************************************)
EXTENDS Integers, Sequences, FiniteSets, TLC

VARIABLES pc, sys_argv, log_file, log_state, config_file, bot_token, chat_id,
          log_content, message, messages, i, posts, sent, exit_status, steps

vars == <<pc, sys_argv, log_file, log_state, config_file, bot_token, chat_id,
          log_content, message, messages, i, posts, sent, exit_status, steps>>

(***************************************************************************)
(* Bounds of the model.                                                    *)
(***************************************************************************)
\* MAX_MESSAGE_LENGTH is 4000 in the source (line 19).  The chunker only
\* compares lengths with it, so it is scaled down to let bounded messages
\* cross it; every formula below is stated relative to it.
MAX_MESSAGE_LENGTH == 3
\* longest message handed directly to send_telegram_message
MaxMsgLen == 6
\* most pieces a log body is assembled from, format_log_for_telegram alone
MaxPieces == 3
\* most pieces of the log body in a run of main
MaxMainPieces == 1
\* most lines of the configuration file
MaxConfigLines == 3

(***************************************************************************)
(* Program constants.                                                      *)
(***************************************************************************)
SEPARATOR_WIDTH == 40

NL == "\n"

DIGITS == <<"0", "1", "2", "3", "4", "5", "6", "7", "8", "9">>

WHITESPACE == {" ", "\t", "\n", "\r"}

TITLE_LINE ==
    <<"U1F514", " ", "<", "b", ">", "P", "a", "p", "e", "r", "l", "e", "s", "s",
      "-", "N", "G", "X", " ", "B", "a", "c", "k", "u", "p", " ", "R", "e", "p",
      "o", "r", "t", "<", "/", "b", ">", "\n">>

CALENDAR_GLYPH == <<"U1F4C5", " ">>

LOG_LABEL == <<"U1F4CB", " ", "L", "o", "g", ":", " ">>

STATUS_SUCCESS ==
    <<"U2705", " ", "<", "b", ">", "S", "t", "a", "t", "u", "s", ":", " ", "S",
      "U", "C", "C", "E", "S", "S", "<", "/", "b", ">", "\n", "\n">>

STATUS_SKIPPED ==
    <<"U2139", "UFE0F", " ", "<", "b", ">", "S", "t", "a", "t", "u", "s", ":",
      " ", "S", "K", "I", "P", "P", "E", "D", " ", "(", "N", "o", " ", "C", "h",
      "a", "n", "g", "e", "s", ")", "<", "/", "b", ">", "\n", "\n">>

STATUS_FAILED ==
    <<"U274C", " ", "<", "b", ">", "S", "t", "a", "t", "u", "s", ":", " ", "F",
      "A", "I", "L", "E", "D", "<", "/", "b", ">", "\n", "\n">>

SUCCESS_MARKER ==
    <<"B", "a", "c", "k", "u", "p", " ", "C", "o", "m", "p", "l", "e", "t", "e",
      "d", " ", "S", "u", "c", "c", "e", "s", "s", "f", "u", "l", "l", "y">>

SKIPPED_MARKER ==
    <<"N", "o", " ", "c", "h", "a", "n", "g", "e", "s", " ", "d", "e", "t", "e",
      "c", "t", "e", "d">>

PRE_OPEN == <<"<", "p", "r", "e", ">">>

PRE_CLOSE == <<"<", "/", "p", "r", "e", ">">>

AMP_ENTITY == <<"&", "a", "m", "p", ";">>

LT_ENTITY == <<"&", "l", "t", ";">>

GT_ENTITY == <<"&", "g", "t", ";">>

PART_LABEL == <<"U1F4C4", " ", "P", "a", "r", "t", " ">>

KEY_BOT_TOKEN == <<"B", "O", "T", "_", "T", "O", "K", "E", "N">>

KEY_CHAT_ID == <<"C", "H", "A", "T", "_", "I", "D">>

ENDPOINT_PREFIX ==
    <<"h", "t", "t", "p", "s", ":", "/", "/", "a", "p", "i", ".", "t", "e", "l",
      "e", "g", "r", "a", "m", ".", "o", "r", "g", "/", "b", "o", "t">>

ENDPOINT_SUFFIX ==
    <<"/", "s", "e", "n", "d", "M", "e", "s", "s", "a", "g", "e">>

(***************************************************************************)
(* Python str operations used by the script.                               *)
(***************************************************************************)
\* s.split(sep) for a one-character separator: the pieces between
\* consecutive occurrences of sep, the separators themselves consumed
Split(s, sep) ==
    LET idx == {k \in 1..Len(s) : s[k] = sep}
        n == Cardinality(idx)
        pos(j) == CHOOSE k \in idx : Cardinality({h \in idx : h < k}) = j - 1
        first(j) == IF j = 1 THEN 1 ELSE pos(j - 1) + 1
        last(j) == IF j = n + 1 THEN Len(s) ELSE pos(j) - 1
    IN [j \in 1..(n + 1) |-> SubSeq(s, first(j), last(j))]

\* sub in s
Contains(s, sub) ==
    \E k \in 0..(Len(s) - Len(sub)) : SubSeq(s, k + 1, k + Len(sub)) = sub

RECURSIVE Replace(_, _, _)
\* s.replace(ch, rep) for a one-character ch
Replace(s, ch, rep) ==
    IF s = <<>> THEN <<>>
    ELSE (IF Head(s) = ch THEN rep ELSE <<Head(s)>>) \o Replace(Tail(s), ch, rep)

RECURSIVE LStrip(_)
LStrip(s) ==
    IF s # <<>> /\ Head(s) \in WHITESPACE THEN LStrip(Tail(s)) ELSE s

RECURSIVE RStrip(_)
RStrip(s) ==
    IF s # <<>> /\ s[Len(s)] \in WHITESPACE
    THEN RStrip(SubSeq(s, 1, Len(s) - 1)) ELSE s

\* s.strip()
Strip(s) == RStrip(LStrip(s))

\* s.startswith(p)
StartsWith(s, p) == Len(s) >= Len(p) /\ SubSeq(s, 1, Len(p)) = p

\* s.split(sep, 1): at most one split, at the first occurrence of sep
SplitOnce(s, sep) ==
    IF \A k \in 1..Len(s) : s[k] # sep THEN <<s>>
    ELSE LET k == CHOOSE j \in 1..Len(s) :
                      s[j] = sep /\ \A h \in 1..(j - 1) : s[h] # sep
         IN <<SubSeq(s, 1, k - 1), SubSeq(s, k + 1, Len(s))>>

RECURSIVE IntToStr(_)
\* str(n) of a natural number, as the f-string renders it
IntToStr(n) ==
    IF n < 10 THEN <<DIGITS[n + 1]>>
    ELSE IntToStr(n \div 10) \o <<DIGITS[(n % 10) + 1]>>

\* the %m, %d, %H, %M, %S fields of strftime: two digits, zero padded
Pad2(n) == <<DIGITS[(n \div 10) + 1], DIGITS[(n % 10) + 1]>>

\* the %Y field of strftime for a four-digit year
Pad4(n) == Pad2(n \div 100) \o Pad2(n % 100)

\* datetime.strftime('%Y-%m-%d %H:%M:%S')
Strftime(t) ==
    Pad4(t.year) \o <<"-">> \o Pad2(t.month) \o <<"-">> \o Pad2(t.day)
    \o <<" ">> \o Pad2(t.hour) \o <<":">> \o Pad2(t.minute) \o <<":">>
    \o Pad2(t.second)

\* ch * n
Repeat(ch, n) == [k \in 1..n |-> ch]

\* os.path.basename(p): what follows the last '/'
Basename(p) ==
    LET parts == Split(p, "/") IN parts[Len(parts)]

(***************************************************************************)
(* load_config                                                             *)
(***************************************************************************)
\* line 33: the stripped line is neither blank nor a comment
IsEntry(stripped) == stripped # <<>> /\ ~StartsWith(stripped, <<"#">>)

RECURSIVE ParseLines(_, _)
\* lines 31-35: the loop over the file's lines; unpacking the result of
\* split('=', 1) into key, value raises ValueError when the line has no '='
ParseLines(lines, config) ==
    IF lines = <<>> THEN [raised |-> FALSE, config |-> config]
    ELSE LET line == Strip(Head(lines)) IN
         IF ~IsEntry(line) THEN ParseLines(Tail(lines), config)
         ELSE LET kv == SplitOnce(line, "=") IN
              IF Len(kv) # 2 THEN [raised |-> TRUE, config |-> config]
              ELSE ParseLines(Tail(lines),
                              (Strip(kv[1]) :> Strip(kv[2])) @@ config)

\* line 37
HasRequiredKeys(config) ==
    KEY_BOT_TOKEN \in DOMAIN config /\ KEY_CHAT_ID \in DOMAIN config

\* load_config: how the call ends (a return, sys.exit(1), or an exception
\* of class Exception) and the pair it returns
load_config(cf) ==
    IF cf.state = "missing"
    THEN [kind |-> "SystemExit", bot_token |-> <<>>, chat_id |-> <<>>]
    ELSE IF cf.state = "unreadable"
    THEN [kind |-> "Exception", bot_token |-> <<>>, chat_id |-> <<>>]
    ELSE LET r == ParseLines(cf.lines, <<>>) IN
         IF r.raised
         THEN [kind |-> "Exception", bot_token |-> <<>>, chat_id |-> <<>>]
         ELSE IF ~HasRequiredKeys(r.config)
         THEN [kind |-> "SystemExit", bot_token |-> <<>>, chat_id |-> <<>>]
         ELSE [kind |-> "return", bot_token |-> r.config[KEY_BOT_TOKEN],
               chat_id |-> r.config[KEY_CHAT_ID]]

(***************************************************************************)
(* format_log_for_telegram                                                 *)
(***************************************************************************)
\* variant: the two markers tested in the other order
StatusLine_SkippedFirst(content) ==
    IF Contains(content, SKIPPED_MARKER) THEN STATUS_SKIPPED
    ELSE IF Contains(content, SUCCESS_MARKER) THEN STATUS_SUCCESS
    ELSE STATUS_FAILED

\* lines 99-104: the status line appended to the header
StatusLine(content) ==
    IF Contains(content, SUCCESS_MARKER) THEN STATUS_SUCCESS
    ELSE IF Contains(content, SKIPPED_MARKER) THEN STATUS_SKIPPED
    ELSE STATUS_FAILED

\* lines 93-104
Header(content, file, t) ==
    TITLE_LINE
    \o CALENDAR_GLYPH \o Strftime(t) \o <<NL>>
    \o LOG_LABEL \o Basename(file) \o <<NL>>
    \o Repeat("=", SEPARATOR_WIDTH) \o <<NL, NL>>
    \o StatusLine(content)

\* variant: the ampersand escaped last
Escape_AmpersandLast(content) ==
    Replace(Replace(Replace(content, "<", LT_ENTITY), ">", GT_ENTITY),
            "&", AMP_ENTITY)

\* lines 107-109
Escape(content) ==
    Replace(Replace(Replace(content, "&", AMP_ENTITY), "<", LT_ENTITY),
            ">", GT_ENTITY)

\* lines 90-114
format_log_for_telegram(content, file, t) ==
    Header(content, file, t) \o PRE_OPEN \o Escape(content) \o PRE_CLOSE

(***************************************************************************)
(* send_telegram_message: the chunker                                       *)
(***************************************************************************)
\* variant: strict comparison
FitsInOne_Strict(msg) == Len(msg) < MAX_MESSAGE_LENGTH

\* line 50
FitsInOne(msg) == Len(msg) <= MAX_MESSAGE_LENGTH

\* variant: the newline not counted
Fits_NoNewline(current_chunk, line) ==
    Len(current_chunk) + Len(line) <= MAX_MESSAGE_LENGTH

\* line 58
Fits(current_chunk, line) ==
    Len(current_chunk) + Len(line) + 1 <= MAX_MESSAGE_LENGTH

\* variant: the newline not put back
WithNewline_Forgotten(line) == line

\* lines 59 and 63: the line and the newline split() consumed
WithNewline(line) == line \o <<NL>>

\* lines 61-62 and 65-66: a non-empty buffer is closed as a chunk
Flush(chunks, current_chunk) ==
    IF current_chunk # <<>> THEN Append(chunks, current_chunk) ELSE chunks

RECURSIVE ChunkLines_DropsPending(_, _, _)
\* variant: the buffer is not closed as a chunk when a line does not fit
ChunkLines_DropsPending(lines, current_chunk, chunks) ==
    IF lines = <<>>
    THEN (IF current_chunk # <<>> THEN Append(chunks, current_chunk)
          ELSE chunks)
    ELSE IF Len(current_chunk) + Len(Head(lines)) + 1 <= MAX_MESSAGE_LENGTH
         THEN ChunkLines_DropsPending(Tail(lines),
                  current_chunk \o Head(lines) \o <<NL>>, chunks)
         ELSE ChunkLines_DropsPending(Tail(lines), Head(lines) \o <<NL>>,
                                      chunks)

RECURSIVE ChunkLines(_, _, _)
\* lines 57-66: the loop over the lines and the final flush
ChunkLines(lines, current_chunk, chunks) ==
    IF lines = <<>> THEN Flush(chunks, current_chunk)
    ELSE IF Fits(current_chunk, Head(lines))
         THEN ChunkLines(Tail(lines),
                         current_chunk \o WithNewline(Head(lines)), chunks)
         ELSE ChunkLines(Tail(lines), WithNewline(Head(lines)),
                         Flush(chunks, current_chunk))

\* lines 49-66
Chunk(msg) ==
    IF FitsInOne(msg) THEN <<msg>>
    ELSE ChunkLines(Split(msg, NL), <<>>, <<>>)

\* variant: the part number not shifted to start at 1
PartPrefix_ZeroBased(k, n) ==
    PART_LABEL \o IntToStr(k) \o <<"/">> \o IntToStr(n) \o <<NL, NL>>

\* line 71: the prefix of the chunk at 0-based index k out of n
PartPrefix(k, n) ==
    PART_LABEL \o IntToStr(k + 1) \o <<"/">> \o IntToStr(n) \o <<NL, NL>>

\* lines 70-72: the text of the chunk at 0-based index k
ChunkText(chunks, k) ==
    IF Len(chunks) > 1 THEN PartPrefix(k, Len(chunks)) \o chunks[k + 1]
    ELSE chunks[k + 1]

\* line 46
Url(token) == ENDPOINT_PREFIX \o token \o ENDPOINT_SUFFIX

\* lines 74-78
Payload(chunks, k, chat) ==
    [chat_id |-> chat, text |-> ChunkText(chunks, k), parse_mode |-> "HTML"]

\* what one requests.post + raise_for_status can do
Outcomes == {"ok", "http_error", "network_error", "timeout"}

\* variant: the response status not checked
RaisesRequestException_NetworkOnly(outcome) ==
    outcome \in {"network_error", "timeout"}

\* lines 81-83: post raises on a network error or a timeout, raise_for_status
\* on a non-2xx response; all are RequestException
RaisesRequestException(outcome) == outcome # "ok"

(***************************************************************************)
(* The environment's inputs.                                               *)
(***************************************************************************)
SCRIPT == <<"t", "n", ".", "p", "y">>

LogPaths ==
    { <<"/", "v", "a", "r", "/", "l", "o", "g", "/", "b", "a", "c", "k", "u",
        "p", ".", "l", "o", "g">>,
      <<"b", ".", "l", "o", "g">> }

ArgVectors ==
    {<<SCRIPT>>} \cup {<<SCRIPT, p>> : p \in LogPaths}
    \cup {<<SCRIPT, p, <<"-", "v">>>> : p \in LogPaths}

\* the log path is absent, present but not readable as text, or a text file
LogStates == {"missing", "unreadable", "ok"}

ConfigLineChoices ==
    { <<" ", "B", "O", "T", "_", "T", "O", "K", "E", "N", " ", "=", " ", "t",
        "0", "k">>,
      <<"C", "H", "A", "T", "_", "I", "D", "=", "-", "1", "=", "2">>,
      <<" ", "#", " ", "n", "o", "t", "e">>,
      <<" ">>,
      <<"j", "u", "n", "k">> }

SeqsUpTo(S, n) == UNION {[1..k -> S] : k \in 0..n}

ConfigFiles ==
    { [state |-> "missing", lines |-> <<>>],
      [state |-> "unreadable", lines |-> <<>>] }
    \cup { [state |-> "present", lines |-> ls] :
             ls \in SeqsUpTo(ConfigLineChoices, MaxConfigLines) }

LogPieces ==
    { <<"B", "a", "c", "k", "u", "p", " ", "C", "o", "m", "p", "l", "e", "t",
        "e", "d", " ">>,
      <<"S", "u", "c", "c", "e", "s", "s", "f", "u", "l", "l", "y">>,
      SKIPPED_MARKER,
      <<"N", "o", " ", "C", "h", "a", "n", "g", "e", "s", " ", "D", "e", "t",
        "e", "c", "t", "e", "d">>,
      <<"&">>, <<"<">>, <<">">>, <<"l", "t", ";">> }

MainLogPieces == {SUCCESS_MARKER, SKIPPED_MARKER, <<"a", "<", NL, "b">>}

RECURSIVE Concat(_)
Concat(ss) == IF ss = <<>> THEN <<>> ELSE Head(ss) \o Concat(Tail(ss))

Bodies(pieces, n) == {Concat(ss) : ss \in SeqsUpTo(pieces, n)}

Clock ==
    { [year |-> 2024, month |-> 1, day |-> 31, hour |-> 2, minute |-> 0,
       second |-> 7],
      [year |-> 2025, month |-> 12, day |-> 1, hour |-> 23, minute |-> 59,
       second |-> 59] }

MessageAlphabet == {"a", "b", NL}

Messages == SeqsUpTo(MessageAlphabet, MaxMsgLen)

NoConfig == [state |-> "unset", lines |-> <<>>]

(***************************************************************************)
(* main                                                                    *)
(***************************************************************************)
Init ==
    /\ pc = "main"
    /\ sys_argv = <<>>
    /\ log_file = <<>>
    /\ log_state = "unset"
    /\ config_file = NoConfig
    /\ bot_token = <<>>
    /\ chat_id = <<>>
    /\ log_content = <<>>
    /\ message = <<>>
    /\ messages = <<>>
    /\ i = 0
    /\ posts = <<>>
    /\ sent = "pending"
    /\ exit_status = "running"
    /\ steps = <<>>

\* sys.exit(code)
Exit(code) == pc' = "exit" /\ exit_status' = code

\* lines 119-123
CheckArgs ==
    /\ pc = "main"
    /\ \E av \in ArgVectors :
         /\ sys_argv' = av
         /\ IF Len(av) < 2
            THEN Exit("1") /\ UNCHANGED log_file
            ELSE /\ log_file' = av[2]
                 /\ pc' = "check_log"
                 /\ UNCHANGED exit_status
    /\ steps' = Append(steps, "args")
    /\ UNCHANGED <<log_state, config_file, bot_token, chat_id, log_content,
                   message, messages, i, posts, sent>>

\* variant: the existence of the log file not checked
LogExists_Unchecked(st) == TRUE

\* line 125: os.path.exists(log_file)
LogExists(st) == st # "missing"

\* lines 125-127
CheckLogExists ==
    /\ pc = "check_log"
    /\ \E st \in LogStates :
         /\ log_state' = st
         /\ IF ~LogExists(st)
            THEN Exit("1")
            ELSE pc' = "load_config" /\ UNCHANGED exit_status
    /\ steps' = Append(steps, "exists")
    /\ UNCHANGED <<sys_argv, log_file, config_file, bot_token, chat_id,
                   log_content, message, messages, i, posts, sent>>

\* lines 130-134: how main leaves when load_config does not return.
\* sys.exit(1) inside load_config raises SystemExit, which "except Exception"
\* does not catch and which ends the process with its code; an Exception is
\* caught and turned into sys.exit(1); anything else would be a traceback
OnConfigFailure(kind) ==
    IF kind = "SystemExit" THEN "1"
    ELSE IF kind = "Exception" THEN "1"
    ELSE "traceback"

\* lines 130-134
LoadConfig ==
    /\ pc = "load_config"
    /\ \E cf \in ConfigFiles :
         LET r == load_config(cf) IN
         /\ config_file' = cf
         /\ IF r.kind = "return"
            THEN /\ bot_token' = r.bot_token
                 /\ chat_id' = r.chat_id
                 /\ pc' = "read_log"
                 /\ UNCHANGED exit_status
            ELSE /\ Exit(OnConfigFailure(r.kind))
                 /\ UNCHANGED <<bot_token, chat_id>>
    /\ steps' = Append(steps, "load_config")
    /\ UNCHANGED <<sys_argv, log_file, log_state, log_content, message,
                   messages, i, posts, sent>>

\* lines 137-142: open() or read() raises unless the path is a text file;
\* the exception is caught and turned into sys.exit(1)
ReadLog ==
    /\ pc = "read_log"
    /\ IF log_state = "ok"
       THEN /\ \E c \in Bodies(MainLogPieces, MaxMainPieces) : log_content' = c
            /\ pc' = "format"
            /\ UNCHANGED exit_status
       ELSE /\ Exit("1")
            /\ UNCHANGED log_content
    /\ steps' = Append(steps, "read_log")
    /\ UNCHANGED <<sys_argv, log_file, log_state, config_file, bot_token,
                   chat_id, message, messages, i, posts, sent>>

\* line 145 and lines 90-114
Format ==
    /\ pc = "format"
    /\ \E t \in Clock :
         message' = format_log_for_telegram(log_content, log_file, t)
    /\ pc' = "send"
    /\ steps' = Append(steps, "format")
    /\ UNCHANGED <<sys_argv, log_file, log_state, config_file, bot_token,
                   chat_id, log_content, messages, i, posts, sent,
                   exit_status>>

\* lines 46-66: the message is split before anything is sent
ChunkMessage ==
    /\ pc = "send"
    /\ messages' = Chunk(message)
    /\ i' = 0
    /\ pc' = "post"
    /\ steps' = Append(steps, "chunk")
    /\ UNCHANGED <<sys_argv, log_file, log_state, config_file, bot_token,
                   chat_id, log_content, message, posts, sent, exit_status>>

\* lines 69-85: one iteration of the sending loop
Post ==
    /\ pc = "post"
    /\ i < Len(messages)
    /\ \E outcome \in Outcomes :
         /\ posts' = Append(posts, [url |-> Url(bot_token),
                                    json |-> Payload(messages, i, chat_id),
                                    outcome |-> outcome])
         /\ IF RaisesRequestException(outcome)
            THEN sent' = "False" /\ pc' = "returned" /\ UNCHANGED i
            ELSE i' = i + 1 /\ UNCHANGED <<sent, pc>>
    /\ steps' = Append(steps, "post")
    /\ UNCHANGED <<sys_argv, log_file, log_state, config_file, bot_token,
                   chat_id, log_content, message, messages, exit_status>>

\* line 87
ReturnTrue ==
    /\ pc = "post"
    /\ i = Len(messages)
    /\ sent' = "True"
    /\ pc' = "returned"
    /\ UNCHANGED <<sys_argv, log_file, log_state, config_file, bot_token,
                   chat_id, log_content, message, messages, i, posts,
                   exit_status, steps>>

\* variant: the failure branch exits with 0 too
ExitCode_AlwaysZero(result) == "0"

\* the exit code main chooses from the result of send_telegram_message
ExitCode(result) == IF result = "True" THEN "0" ELSE "1"

\* lines 147-152
Finish ==
    /\ pc = "returned"
    /\ Exit(ExitCode(sent))
    /\ UNCHANGED <<sys_argv, log_file, log_state, config_file, bot_token,
                   chat_id, log_content, message, messages, i, posts, sent,
                   steps>>

Next ==
    \/ CheckArgs
    \/ CheckLogExists
    \/ LoadConfig
    \/ ReadLog
    \/ Format
    \/ ChunkMessage
    \/ Post
    \/ ReturnTrue
    \/ Finish

Spec == Init /\ [][Next]_vars

(***************************************************************************)
(* send_telegram_message called on its own with an arbitrary message.      *)
(***************************************************************************)
InitSend ==
    /\ pc = "send"
    /\ sys_argv = <<>>
    /\ log_file = <<>>
    /\ log_state = "unset"
    /\ config_file = NoConfig
    /\ bot_token = <<"t", "0", "k">>
    /\ chat_id = <<"-", "1">>
    /\ log_content = <<>>
    /\ message \in Messages
    /\ messages = <<>>
    /\ i = 0
    /\ posts = <<>>
    /\ sent = "pending"
    /\ exit_status = "running"
    /\ steps = <<>>

NextSend ==
    \/ ChunkMessage
    \/ Post
    \/ ReturnTrue

SpecSend == InitSend /\ [][NextSend]_vars

(***************************************************************************)
(* format_log_for_telegram called on its own with an arbitrary log.        *)
(***************************************************************************)
InitFormat ==
    /\ pc = "format"
    /\ sys_argv = <<>>
    /\ log_file \in LogPaths
    /\ log_state = "ok"
    /\ config_file = NoConfig
    /\ bot_token = <<>>
    /\ chat_id = <<>>
    /\ log_content \in Bodies(LogPieces, MaxPieces)
    /\ message = <<>>
    /\ messages = <<>>
    /\ i = 0
    /\ posts = <<>>
    /\ sent = "pending"
    /\ exit_status = "running"
    /\ steps = <<>>

NextFormat == Format

SpecFormat == InitFormat /\ [][NextFormat]_vars

(***************************************************************************)
(* Vocabulary of the properties.                                           *)
(***************************************************************************)
\* the chunker has run
Chunked == \E k \in 1..Len(steps) : steps[k] = "chunk"

\* a step of the given name has been taken
Took(name) == \E k \in 1..Len(steps) : steps[k] = name

\* the POSTs issued so far that failed
FailedPosts == {k \in 1..Len(posts) : posts[k].outcome # "ok"}

EndsWith(s, p) ==
    Len(s) >= Len(p) /\ SubSeq(s, Len(s) - Len(p) + 1, Len(s)) = p

\* the lines a chunk holds, the newline after each line stripped
LinesOfChunk(c) ==
    LET parts == Split(c, NL) IN
    IF EndsWith(c, <<NL>>) THEN SubSeq(parts, 1, Len(parts) - 1) ELSE parts

\* the lines of all chunks, in order
LinesOfChunks(chunks) ==
    Concat([k \in 1..Len(chunks) |-> LinesOfChunk(chunks[k])])

\* occurrences of the character ch in s
Count(s, ch) == Cardinality({k \in 1..Len(s) : s[k] = ch})

\* occurrences of the substring sub in s
CountSub(s, sub) ==
    Cardinality({k \in 0..(Len(s) - Len(sub)) :
                    SubSeq(s, k + 1, k + Len(sub)) = sub})

\* where the last <pre> of a formatted message starts; the escaped body
\* holds no '<', so this is the tag the formatter wrote
PreOpenAt(m) ==
    CHOOSE k \in 1..(Len(m) - Len(PRE_OPEN) + 1) :
        /\ SubSeq(m, k, k + Len(PRE_OPEN) - 1) = PRE_OPEN
        /\ \A h \in (k + 1)..(Len(m) - Len(PRE_OPEN) + 1) :
              SubSeq(m, h, h + Len(PRE_OPEN) - 1) # PRE_OPEN

HeaderOf(m) == SubSeq(m, 1, PreOpenAt(m) - 1)

EscapedBodyOf(m) ==
    SubSeq(m, PreOpenAt(m) + Len(PRE_OPEN), Len(m) - Len(PRE_CLOSE))

Formatted == pc = "send" /\ Took("format")

\* the configuration file can be read, every line that is neither blank
\* nor a comment has a '=', and both required keys are set
ConfigLoads(cf) ==
    LET entries == {k \in 1..Len(cf.lines) :
                       LET l == Strip(cf.lines[k]) IN
                       l # <<>> /\ l[1] # "#"}
        KeyOf(k) == Strip(SplitOnce(Strip(cf.lines[k]), "=")[1])
    IN /\ cf.state = "present"
       /\ \A k \in entries : Count(cf.lines[k], "=") >= 1
       /\ \E k \in entries : KeyOf(k) = KEY_BOT_TOKEN
       /\ \E k \in entries : KeyOf(k) = KEY_CHAT_ID

C2_ChunksAreTheLines ==
    (Chunked /\ Len(message) > MAX_MESSAGE_LENGTH) =>
        /\ \A k \in 1..Len(messages) : EndsWith(messages[k], <<NL>>)
        /\ LinesOfChunks(messages) = Split(message, NL)

C2_Witness ==
    /\ Chunked
    /\ Len(message) > MAX_MESSAGE_LENGTH
    /\ Len(messages) >= 2
    /\ \E k \in 1..Len(messages) : Len(LinesOfChunk(messages[k])) >= 2
    /\ \E k \in 1..Len(messages) :
          Len(LinesOfChunk(messages[k])) = 1
          /\ Len(messages[k]) > MAX_MESSAGE_LENGTH

(***************************************************************************)
(* C3                                                                      *)
(***************************************************************************)
\* C3 (as stated): every chunk is at most MAX_MESSAGE_LENGTH long, except a
\* chunk of exactly one line that is itself longer than MAX_MESSAGE_LENGTH.
C3_OnlyOverlongLinesExceed ==
    Chunked =>
        \A k \in 1..Len(messages) :
            \/ Len(messages[k]) <= MAX_MESSAGE_LENGTH
            \/ /\ Len(LinesOfChunk(messages[k])) = 1
               /\ Len(LinesOfChunk(messages[k])[1]) > MAX_MESSAGE_LENGTH

\* C3 (amended): every chunk is at most MAX_MESSAGE_LENGTH long, except a
\* chunk of exactly one line that together with its newline is longer than
\* MAX_MESSAGE_LENGTH, that is a line of length >= MAX_MESSAGE_LENGTH.
C3_OnlyLinesThatDoNotFitExceed ==
    Chunked =>
        \A k \in 1..Len(messages) :
            \/ Len(messages[k]) <= MAX_MESSAGE_LENGTH
            \/ /\ Len(message) > MAX_MESSAGE_LENGTH
               /\ Len(LinesOfChunk(messages[k])) = 1
               /\ Len(LinesOfChunk(messages[k])[1]) >= MAX_MESSAGE_LENGTH

C3_Witness ==
    /\ Chunked
    /\ \E k \in 1..Len(messages) :
          /\ Len(messages[k]) = MAX_MESSAGE_LENGTH + 1
          /\ Len(LinesOfChunk(messages[k])) = 1
          /\ Len(LinesOfChunk(messages[k])[1]) = MAX_MESSAGE_LENGTH
    /\ \E k \in 1..Len(messages) :
          /\ Len(messages[k]) = MAX_MESSAGE_LENGTH
          /\ Len(LinesOfChunk(messages[k])) >= 2

(***************************************************************************)
(* C4                                                                      *)
(***************************************************************************)
\* C4: a message of length <= MAX_MESSAGE_LENGTH (the empty one and one of
\* exactly that length included) is the only chunk, and the text POSTed is
\* that message, unchanged and without a Part prefix.
C4_ShortMessageUnchanged ==
    (Chunked /\ Len(message) <= MAX_MESSAGE_LENGTH) =>
        /\ messages = <<message>>
        /\ Len(posts) <= 1
        /\ \A k \in 1..Len(posts) : posts[k].json.text = message
        /\ (pc = "returned" /\ sent = "True") => Len(posts) = 1

C4_Witness ==
    /\ pc = "returned"
    /\ Len(message) = MAX_MESSAGE_LENGTH
    /\ Len(posts) = 1
    /\ posts[1].json.text = message

(***************************************************************************)
(* C5                                                                      *)
(***************************************************************************)
\* C5: the k-th POST issued carries the k-th chunk; with N > 1 chunks it is
\* prefixed with "Part k/N" and a blank line, with N = 1 it has no prefix;
\* no chunk is POSTed twice.
C5_PostsInOrderWithPartPrefix ==
    LET N == Len(messages) IN
    /\ Len(posts) <= N
    /\ \A k \in 1..Len(posts) :
          posts[k].json.text =
             IF N > 1
             THEN PART_LABEL \o IntToStr(k) \o <<"/">> \o IntToStr(N)
                  \o <<NL, NL>> \o messages[k]
             ELSE messages[k]

C5_Witness ==
    /\ pc = "returned"
    /\ sent = "True"
    /\ Len(messages) >= 3
    /\ Len(posts) = Len(messages)

(***************************************************************************)
(* C6                                                                      *)
(***************************************************************************)
\* C6: the header ends with the SUCCESS line iff the raw log contains the
\* success marker, with the SKIPPED line iff it contains the no-changes
\* marker and not the success marker, with the FAILED line otherwise; and
\* exactly one of the three status lines occurs in the header.
C6_StatusFirstMatchWins ==
    Formatted =>
        LET h == HeaderOf(message)
            success == Contains(log_content, SUCCESS_MARKER)
            skipped == Contains(log_content, SKIPPED_MARKER)
        IN /\ EndsWith(h, STATUS_SUCCESS) <=> success
           /\ EndsWith(h, STATUS_SKIPPED) <=> (skipped /\ ~success)
           /\ EndsWith(h, STATUS_FAILED) <=> (~skipped /\ ~success)
           /\ Cardinality({st \in {STATUS_SUCCESS, STATUS_SKIPPED,
                                   STATUS_FAILED} : Contains(h, st)}) = 1

C6_Witness ==
    /\ Formatted
    /\ Contains(log_content, SUCCESS_MARKER)
    /\ Contains(log_content, SKIPPED_MARKER)
    /\ EndsWith(HeaderOf(message), STATUS_SUCCESS)

(***************************************************************************)
(* C7                                                                      *)
(***************************************************************************)
\* C7: a run ends with exit code 0 or 1, never with a traceback, and with 0
\* iff an argument was given, the log file exists and is readable, the
\* configuration loads with both keys, and every chunk was delivered.
C7_ExitCode ==
    /\ exit_status \in {"running", "0", "1"}
    /\ (pc = "exit") <=> (exit_status # "running")
    /\ pc = "exit" =>
          ((exit_status = "0") <=>
              /\ Len(sys_argv) >= 2
              /\ log_state = "ok"
              /\ ConfigLoads(config_file)
              /\ Chunked
              /\ Len(posts) = Len(messages)
              /\ FailedPosts = {})

C7_Witness ==
    /\ pc = "exit"
    /\ exit_status = "0"
    /\ Len(posts) >= 2
    /\ Len(config_file.lines) = 3

(***************************************************************************)
(* C8                                                                      *)
(***************************************************************************)
\* C8: when the log path does not exist the run exits with 1 and no
\* configuration load is attempted; when the configuration file is missing
\* or lacks a required key the run exits with 1 and the log is not read,
\* no message is formatted and nothing is POSTed.
C8_EarlyFailureStopsTheRun ==
    /\ log_state = "missing" =>
          /\ pc = "exit" /\ exit_status = "1"
          /\ ~Took("load_config")
          /\ config_file = NoConfig
    /\ (Took("load_config") /\ ~ConfigLoads(config_file)) =>
          /\ pc = "exit" /\ exit_status = "1"
          /\ ~Took("read_log") /\ ~Took("format") /\ ~Took("post")
          /\ log_content = <<>> /\ message = <<>> /\ posts = <<>>

C8_Witness ==
    /\ pc = "exit"
    /\ config_file.state = "present"
    /\ Len(config_file.lines) >= 2
    /\ \A k \in 1..Len(config_file.lines) :
          Count(config_file.lines[k], "=") >= 1
    /\ ~ConfigLoads(config_file)

(***************************************************************************)
(* C9                                                                      *)
(***************************************************************************)
\* C9: the escaped body holds no '<' and no '>', every '&' in it starts one
\* of &amp; &lt; &gt;, and it holds as many &amp;, &lt; and &gt; as the
\* original body holds '&', '<' and '>'.
C9_EscapeExhaustiveNoDoubleEscape ==
    Formatted =>
        LET e == EscapedBodyOf(message) IN
        /\ Count(e, "<") = 0
        /\ Count(e, ">") = 0
        /\ \A k \in 1..Len(e) :
              e[k] = "&" =>
                 \E ent \in {AMP_ENTITY, LT_ENTITY, GT_ENTITY} :
                    /\ k + Len(ent) - 1 <= Len(e)
                    /\ SubSeq(e, k, k + Len(ent) - 1) = ent
        /\ CountSub(e, AMP_ENTITY) = Count(log_content, "&")
        /\ CountSub(e, LT_ENTITY) = Count(log_content, "<")
        /\ CountSub(e, GT_ENTITY) = Count(log_content, ">")

C9_Witness ==
    /\ Formatted
    /\ Contains(log_content, LT_ENTITY)
    /\ Count(log_content, "<") >= 1
    /\ CountSub(EscapedBodyOf(message), LT_ENTITY) = 1

(***************************************************************************)
(* C10                                                                     *)
(***************************************************************************)
\* C10: for a message longer than the maximum no chunk is empty, every
\* chunk ends with a newline, the chunks concatenated are the message and
\* one more newline, and no text POSTed equals the message.
C10_SplitPathAddsOneNewline ==
    (Chunked /\ Len(message) > MAX_MESSAGE_LENGTH) =>
        /\ \A k \in 1..Len(messages) :
              messages[k] # <<>> /\ messages[k][Len(messages[k])] = NL
        /\ Concat(messages) = message \o <<NL>>
        /\ \A k \in 1..Len(posts) : posts[k].json.text # message

C10_Witness ==
    /\ pc = "returned"
    /\ Len(message) > MAX_MESSAGE_LENGTH
    /\ Len(messages) = 1
    /\ Len(posts) = 1
    /\ posts[1].json.text = message \o <<NL>>

=============================================================================
